---- MODULE Spec2Model ----
(***************************************************************************)
(* Model of the emma-wave speaker diarization service.                     *)
(*                                                                         *)
(*  - app/utils/audio_utils.py : merge_speaker_segments, the format        *)
(*    normalizer and extract_speaker_segments                              *)
(*  - app/utils/logging_utils.py, app/services/logging_service.py :        *)
(*    the log persisters                                                   *)
(*  - app/main.py, app/routes/diarization.py : the two /diarize handlers   *)
(*                                                                         *)
(* Times are integers.  merge_speaker_segments only subtracts and compares *)
(* its start/end values, so on integer-valued inputs the model computes    *)
(* exactly what the Python code computes.                                  *)
(***************************************************************************)
EXTENDS Integers, Sequences, FiniteSets, TLC

VARIABLES
    \* ---- merge_speaker_segments applied to drawn inputs ----
    events,           \* the events as the caller built them (never changes)
    gap_threshold,    \* the gap_threshold argument
    segments,         \* the caller's list object, as the call leaves it
    merged_segments,  \* the list returned by merge_speaker_segments(events)
    remerged,         \* the list returned by merging merged_segments again
    mpc,              \* "input" -> "merged" -> "remerged"
    \* ---- the service ----
    ENABLE_LOGGING,   \* the toggle read from the environment at import
    app,              \* the deployed /diarize handler: "main" or "routes"
    pc,               \* per request: where its handler coroutine stands
    upload,           \* per request: the uploaded bytes
    original_audio,   \* per request: the bytes handed to the engine
    sampler,          \* per request: the collect_metrics task
    during_processing_metrics,  \* per request: the samples appended
    speaker_audio_segments,     \* per request: the extracted clip mapping
    last_response,    \* the HTTP response returned last
    last_upload,      \* the upload of the request it answers
    saved_audio,      \* the files segment_<i>.wav of the saved_audio folder
    logs_dir,         \* the files of the logs folder, by request id
    direct_return     \* a direct call of save_request_log: the await it is
                      \* suspended at, or what it returned

mvars == <<events, gap_threshold, segments, merged_segments, remerged, mpc>>

svars == <<ENABLE_LOGGING, app, pc, upload, original_audio, sampler,
           during_processing_metrics,
           speaker_audio_segments, last_response, last_upload, saved_audio,
           logs_dir, direct_return>>

vars == <<mvars, svars>>

-----------------------------------------------------------------------------
(* Bounds *)

MaxEvents == 3      \* longest drawn event list
MaxTime   == 3      \* largest drawn start/end value
MaxGap    == 2      \* largest drawn gap threshold

Speakers == {"A", "B"}

Max(a, b) == IF a >= b THEN a ELSE b

\* RawSpeakerEvent: {speaker, start, end}, start < end, non-negative
RawSpeakerEvent ==
    { [speaker |-> sp, start |-> s, end |-> e] :
        sp \in Speakers, s \in 0..MaxTime, e \in 0..MaxTime }

Events == { ev \in RawSpeakerEvent : ev.start < ev.end }

EventLists == UNION { [1..n -> Events] : n \in 0..MaxEvents }

\* The literal example of the specification, in tenths of a second:
\* [{A,0,2},{A,2.3,4},{B,2.1,3},{A,4.4,6}] with gap 0.5.
\* (None of its float subtractions lands on the threshold, so the scaling
\* by ten changes no comparison.)
ExampleEvents ==
    << [speaker |-> "A", start |-> 0,  end |-> 20],
       [speaker |-> "A", start |-> 23, end |-> 40],
       [speaker |-> "B", start |-> 21, end |-> 30],
       [speaker |-> "A", start |-> 44, end |-> 60] >>

\* gap_threshold=0.5, the default of merge_speaker_segments, in tenths
DefaultGapTenths == 5

-----------------------------------------------------------------------------
(* merge_speaker_segments, audio_utils.py:138-170 *)

\* list.sort(key=start) is stable: an element goes after every element
\* whose key is <= its own.
RECURSIVE InsertByStart(_, _)
InsertByStart(sorted, ev) ==
    IF sorted = <<>> THEN <<ev>>
    ELSE IF sorted[Len(sorted)].start <= ev.start
         THEN Append(sorted, ev)
         ELSE Append(InsertByStart(SubSeq(sorted, 1, Len(sorted) - 1), ev),
                     sorted[Len(sorted)])

\* the list left in the caller's order (no sort)
Unsorted(segs) == segs

RECURSIVE SortByStart(_)
SortByStart(segs) ==
    IF segs = <<>> THEN <<>>
    ELSE InsertByStart(SortByStart(SubSeq(segs, 1, Len(segs) - 1)),
                       segs[Len(segs)])

\* the merge test with a strict comparison
ShouldMergeStrict(current_segment, next_segment, gap) ==
    /\ current_segment.speaker = next_segment.speaker
    /\ (next_segment.start - current_segment.end) < gap

\* the merge test measuring the gap from the start of the current segment
ShouldMergeFromStart(current_segment, next_segment, gap) ==
    /\ current_segment.speaker = next_segment.speaker
    /\ (next_segment.start - current_segment.start) <= gap

\* the condition of the if at lines 159-160
ShouldMerge(current_segment, next_segment, gap) ==
    /\ current_segment.speaker = next_segment.speaker
    /\ (next_segment.start - current_segment.end) <= gap

\* the value assigned to current_segment["end"] at line 162
MergedEnd(current_segment, next_segment) == next_segment.end

\* The loop of lines 156-165 after it has consumed sorted[2..k].
\* current_segment and the entries of merged_segments are references to the
\* dicts of the list, so they are kept as indexes into segs, and the
\* assignment of line 162 changes the dict in the list.
RECURSIVE MergeLoop(_, _, _)
MergeLoop(sorted, gap, k) ==
    IF k <= 1
    THEN [segs |-> sorted, merged |-> <<>>, cur |-> 1]
    ELSE LET st == MergeLoop(sorted, gap, k - 1)
             current_segment == st.segs[st.cur]
             next_segment == st.segs[k]
         IN  IF ShouldMerge(current_segment, next_segment, gap)
             THEN [st EXCEPT !.segs[st.cur].end =
                                 MergedEnd(current_segment, next_segment)]
             ELSE [st EXCEPT !.merged = Append(@, st.cur), !.cur = k]

\* the loop state when the for loop has ended
MergeWalk(segs, gap) == MergeLoop(SortByStart(segs), gap, Len(segs))

\* merged_segments without its last append: the list a version of the code
\* that forgets line 167 would return
ReturnedRefsNoFinal(st) == st.merged

\* merged_segments.append(current_segment) after the loop (line 167)
ReturnedRefs(st) == Append(st.merged, st.cur)

\* the returned list (lines 149-150, 170)
merge_speaker_segments(segs, gap) ==
    IF segs = <<>> THEN <<>>
    ELSE LET st == MergeWalk(segs, gap)
             refs == ReturnedRefs(st)
         IN  [i \in 1..Len(refs) |-> st.segs[refs[i]]]

\* the caller's list after the call: sorted in place (line 153), its dicts
\* changed by line 162
SegmentsAfterMerge(segs, gap) ==
    IF segs = <<>> THEN <<>> ELSE MergeWalk(segs, gap).segs

-----------------------------------------------------------------------------
(* The service: bounds and values *)

MaxRequests     == 2    \* /diarize requests in a run
MaxInFlight     == 1    \* requests whose handler or task runs at one time
MaxTracks       == 1    \* tracks the diarization engine returns
MaxSamples      == 2    \* samples one collect_metrics task appends

\* samplerate == 16000 of the canonical format, per tenth of a second
SamplesPerTenth == 1600

Requests    == 1..MaxRequests
LogIds      == 0..MaxRequests   \* 0: the file of a call without request_id
ClipIndexes == 1..MaxTracks

Formats == {"canonical", "noncanonical", "undecodable"}

\* The engine's tracks lie on whole seconds (times are in tenths), so that
\* the default gap threshold of 0.5 s falls between the possible gaps: each
\* track lasts one second, an even track starts where the one before it
\* ends and an odd one a second later.
TrackStart(i) == 10 * (i - 1) + 10 * ((i - 1) \div 2)

Track(sp, i) ==
    [speaker |-> sp, start |-> TrackStart(i), end |-> TrackStart(i) + 10]

\* what itertracks yields: tracks in time order, each with a speaker label.
\* The handlers never look at a label but to compare it with another, so
\* the outputs are taken up to renaming: the first track's speaker is "A".
DiarizationOutputs ==
    UNION { { [i \in 1..n |-> Track(sps[i], i)] :
                sps \in { f \in [1..n -> Speakers] :
                            IF n = 0 THEN TRUE ELSE f[1] = "A" } } :
              n \in 0..MaxTracks }

\* the value of a result variable before the call
NotCalled == <<[speaker |-> "-", start |-> -1, end |-> -1]>>

Unassigned  == [assigned |-> FALSE]
Assigned(v) == [assigned |-> TRUE, value |-> v]

NoResponse == [status |-> 0, request_id |-> 0]
NoAudio    == [id |-> 0, format |-> "none"]
NoFile     == [audio |-> 0, start_sample |-> -1, end_sample |-> -1]
NoLog      == [state |-> "absent"]
EmptyLog   == [state |-> "empty"]
OpenedLog(data)  == [state |-> "opened", data |-> data]
WrittenLog(data) == [state |-> "written", data |-> data]

Returned(v) == [raised |-> FALSE, value |-> v]
Raised(e)   == [raised |-> TRUE, error |-> e]

-----------------------------------------------------------------------------
(* Format normalizer, audio_utils.py:14-53 and 113-134 *)

\* sf.read succeeds
Readable(input_audio) == input_audio.format # "undecodable"

\* True iff the bytes parse and are 16 kHz mono; a parse failure is caught
\* and answered False (lines 132-134)
validate_audio_format(input_audio) ==
    Readable(input_audio) /\ input_audio.format = "canonical"

\* the normalizer handing unreadable bytes back instead of raising
convert_audio_format_passthrough(input_audio, transcoder) ==
    IF input_audio.format = "noncanonical" /\ transcoder = "unavailable"
    THEN Raised("AudioProcessingError")
    ELSE IF input_audio.format = "noncanonical" /\ transcoder = "ok"
    THEN Returned([input_audio EXCEPT !.format = "canonical"])
    ELSE IF input_audio.format = "noncanonical"
    THEN Returned([input_audio EXCEPT !.format = "undecodable"])
    ELSE Returned(input_audio)

\* transcoder: "ok", "unavailable" (run_async raises) or "nonzero" (ffmpeg
\* exits non-zero: communicate() raises nothing and its stdout, no readable
\* audio, is returned)
convert_audio_format(input_audio, transcoder) ==
    IF ~Readable(input_audio)
    THEN Raised("AudioProcessingError")
    ELSE IF input_audio.format = "canonical"
    THEN Returned(input_audio)
    ELSE IF transcoder = "unavailable"
    THEN Raised("AudioProcessingError")
    ELSE IF transcoder = "ok"
    THEN Returned([input_audio EXCEPT !.format = "canonical"])
    ELSE Returned([input_audio EXCEPT !.format = "undecodable"])

-----------------------------------------------------------------------------
(* extract_speaker_segments, audio_utils.py:55-109 *)

\* audio_data[start_sample:end_sample] of the request's audio
ClipBytes(audio_id, start, end) ==
    [audio |-> audio_id,
     start_sample |-> start * SamplesPerTenth,
     end_sample |-> end * SamplesPerTenth]

\* file_name = f"segment_{index}.wav": the name is the index alone
ClipFileName(request, index) == index

\* segment_entry of lines 92-97, with its speaker
SegmentEntries(segs, request) ==
    [i \in 1..Len(segs) |->
        [speaker |-> segs[i].speaker,
         id |-> <<request, i>>,
         audio_url |-> ClipFileName(request, i),
         start |-> segs[i].start,
         end |-> segs[i].end]]

\* speaker_clips with each entry put at the head of its speaker's list
SpeakerClipsPrepended(segs, request) ==
    LET entries == SegmentEntries(segs, request)
        Of(sp) == SelectSeq(entries, LAMBDA en : en.speaker = sp)
    IN  [sp \in { segs[i].speaker : i \in 1..Len(segs) } |->
            [i \in 1..Len(Of(sp)) |->
                [id |-> Of(sp)[Len(Of(sp)) + 1 - i].id,
                 audio_url |-> Of(sp)[Len(Of(sp)) + 1 - i].audio_url,
                 start |-> Of(sp)[Len(Of(sp)) + 1 - i].start,
                 end |-> Of(sp)[Len(Of(sp)) + 1 - i].end]]]

\* speaker_clips: speaker -> its entries in the order of the segments
SpeakerClips(segs, request) ==
    LET entries == SegmentEntries(segs, request)
        Of(sp) == SelectSeq(entries, LAMBDA en : en.speaker = sp)
    IN  [sp \in { segs[i].speaker : i \in 1..Len(segs) } |->
            [i \in 1..Len(Of(sp)) |->
                [id |-> Of(sp)[i].id,
                 audio_url |-> Of(sp)[i].audio_url,
                 start |-> Of(sp)[i].start,
                 end |-> Of(sp)[i].end]]]

\* write_fails_at = k in 1..Len(segs): sf.write raises for segment k, after
\* the files of segments 1..k-1 were written; otherwise every file is written
extract_speaker_segments(audio, segs, request, files, write_fails_at) ==
    LET fails == write_fails_at \in 1..Len(segs)
        written == IF ~Readable(audio) THEN 0
                   ELSE IF fails THEN write_fails_at - 1 ELSE Len(segs)
        after == [i \in ClipIndexes |->
                    IF i <= written
                    THEN ClipBytes(audio.id, segs[i].start, segs[i].end)
                    ELSE files[i]]
    IN  IF ~Readable(audio) \/ fails
        THEN [raised |-> TRUE, error |-> "AudioProcessingError",
              files |-> after]
        ELSE [raised |-> FALSE, value |-> SpeakerClips(segs, request),
              files |-> after]

\* GET /audio/{filename}, main.py:48-53
get_audio(filename) == saved_audio[filename]

-----------------------------------------------------------------------------
(* Telemetry and log records *)

\* get_system_metrics is a coroutine function: awaited it yields the
\* snapshot (logging_utils.py:63-68), called without await it yields a
\* coroutine object.
Snapshot ==
    [kind |-> "snapshot",
     keys |-> {"cpu_usage_percent", "ram_usage_percent",
               "disk_usage_percent", "gpu_usage_percent"}]
Coroutine == [kind |-> "coroutine"]
EmptyDict == [kind |-> "dict"]

\* main.py:72 and main.py:143
MainMetrics == IF ENABLE_LOGGING THEN Coroutine ELSE EmptyDict

\* performance_data, main.py:148-165
performance_data(r) ==
    [kind |-> "performance",
     request_id |-> r,
     step_timings |-> {"audio_conversion", "diarization_processing",
                       "segment_extraction"},
     before_processing |-> MainMetrics,
     during_processing |-> during_processing_metrics[r],
     after_processing |-> MainMetrics,
     speakers |-> speaker_audio_segments[r].value]

\* error_log, main.py:131-137
error_log(r) ==
    [kind |-> "error", request_id |-> r,
     system_metrics_at_failure |-> Coroutine]

\* step_timings of process_audio: audio_conversion is timed only when the
\* validation failed and the conversion ran (diarization_service.py:56-64)
routes_step_timings(input_audio) ==
    {"audio_validation", "audio_gpu_transfer", "diarization_processing",
     "segmentation_extraction", "segment_extraction"}
        \cup (IF validate_audio_format(input_audio) THEN {}
              ELSE {"audio_conversion"})

\* result of process_audio plus the handler's additions,
\* diarization_service.py:94-100 and routes/diarization.py:29-33
routes_result(r) ==
    [kind |-> "result",
     request_id |-> r,
     step_timings |-> routes_step_timings(upload[r]),
     before_processing |-> Snapshot,
     speakers |-> speaker_audio_segments[r].value]

\* json.dumps raises TypeError on a coroutine object
JsonSerializable(data) ==
    IF data.kind = "performance"
    THEN /\ data.before_processing.kind # "coroutine"
         /\ data.after_processing.kind # "coroutine"
         /\ \A i \in 1..Len(data.during_processing) :
                data.during_processing[i].system.kind # "coroutine"
    ELSE IF data.kind = "error"
    THEN data.system_metrics_at_failure.kind # "coroutine"
    ELSE IF data.kind = "result"
    THEN data.before_processing.kind # "coroutine"
    ELSE TRUE

\* save_request_log with its toggle test removed
SaveRequestLogUnguarded == TRUE

\* the test of logging_utils.py:75-76 passes
SaveRequestLogEnabled == ENABLE_LOGGING

\* the data the pending log call of request r serializes
LogData(r) ==
    IF app = "routes" THEN routes_result(r)
    ELSE IF pc[r] \in {"errlog_open", "errlog_write", "errlog_close",
                       "errlog_close_raised"}
    THEN error_log(r)
    ELSE performance_data(r)

-----------------------------------------------------------------------------
(* Responses *)

\* main.py:169-174
MainSuccess(r, speakers) ==
    [status |-> 200, request_id |-> r, speakers |-> speakers]

\* routes/diarization.py:38: the result dict itself
RoutesSuccess(r, speakers) ==
    [status |-> 200, request_id |-> r, speakers |-> speakers,
     system_metrics |-> Snapshot]

\* main.py:123-125, routes/diarization.py:40-42
ProcessingErrorResponse(r, e) ==
    [status |-> 400, request_id |-> r, error |-> e]

\* main.py:140, routes/diarization.py:44-46
UnexpectedErrorResponse(r) ==
    [status |-> 500, request_id |-> r, error |-> "Unexpected error"]

-----------------------------------------------------------------------------
(* The /diarize handlers as coroutines on one event loop *)

\* The diarization call is synchronous: while a handler is inside it no
\* other coroutine or task of the loop runs.
LoopFree == \A q \in Requests : pc[q] # "diarizing"

\* the collect_metrics task of request r has been created and is not over
SamplerActive(r) == sampler[r] \in {"check", "sleeping"}

\* the requests whose handler or collect_metrics task is still running
InFlight ==
    { q \in Requests : pc[q] \notin {"idle", "done"} \/ SamplerActive(q) }

\* The handler returns resp to the request that uploaded bytes.  Its locals
\* die with it.  No return cancels the collect_metrics task: while it runs
\* it holds the sample list and goes on appending to it; a task that is
\* over is dropped with the list.
Respond(r, resp, bytes) ==
    /\ pc' = [pc EXCEPT ![r] = "done"]
    /\ last_response' = resp
    /\ last_upload' = bytes
    /\ upload' = [upload EXCEPT ![r] = NoAudio]
    /\ original_audio' = [original_audio EXCEPT ![r] = NoAudio]
    /\ speaker_audio_segments' =
           [speaker_audio_segments EXCEPT ![r] = Unassigned]
    /\ during_processing_metrics' =
           [during_processing_metrics EXCEPT
               ![r] = IF SamplerActive(r) THEN @ ELSE <<>>]
    /\ sampler' = [sampler EXCEPT
                      ![r] = IF SamplerActive(r) THEN @ ELSE "none"]

\* The handler goes on to its next await.
Proceed(r, next_pc) ==
    /\ pc' = [pc EXCEPT ![r] = next_pc]
    /\ UNCHANGED <<last_response, last_upload, during_processing_metrics>>

\* ... and starts no task
NoTask == UNCHANGED sampler

ServiceIdle ==
    /\ pc = [r \in Requests |-> "idle"]
    /\ upload = [r \in Requests |-> NoAudio]
    /\ original_audio = [r \in Requests |-> NoAudio]
    /\ sampler = [r \in Requests |-> "none"]
    /\ during_processing_metrics = [r \in Requests |-> <<>>]
    /\ speaker_audio_segments = [r \in Requests |-> Unassigned]
    /\ last_response = NoResponse
    /\ last_upload = NoAudio
    /\ saved_audio = [i \in ClipIndexes |-> NoFile]
    /\ logs_dir = [i \in LogIds |-> NoLog]
    /\ direct_return = "not_called"

MergeIdle ==
    /\ events = <<>>
    /\ gap_threshold = DefaultGapTenths
    /\ segments = <<>>
    /\ merged_segments = NotCalled
    /\ remerged = NotCalled
    /\ mpc = "unused"

Init ==
    /\ ENABLE_LOGGING \in BOOLEAN
    /\ app \in {"main", "routes"}
    /\ ServiceIdle
    /\ MergeIdle

\* The request arrives and the handler runs to `await file.read()`
\* (main.py:70-77; routes/diarization.py:17-28, diarization_service.py:51).
Receive(r) ==
    /\ pc[r] = "idle"
    /\ IF r = 1 THEN TRUE ELSE pc[r - 1] # "idle"
    /\ LoopFree
    /\ Cardinality(InFlight) < MaxInFlight
    /\ pc' = [pc EXCEPT ![r] = "reading"]
    /\ UNCHANGED mvars
    /\ UNCHANGED <<ENABLE_LOGGING, app, upload, original_audio, sampler,
                   during_processing_metrics, speaker_audio_segments,
                   last_response, last_upload, saved_audio, logs_dir,
                   direct_return>>

\* The upload is read; normalization, the start of the sampler task and
\* the entry into the diarization call
\* (main.py:77-103; diarization_service.py:51-74).
StartProcessing(r) ==
    /\ pc[r] = "reading"
    /\ LoopFree
    /\ \E fmt \in Formats, transcoder \in {"ok", "unavailable", "nonzero"} :
           LET bytes == [id |-> r, format |-> fmt]
               conv == IF validate_audio_format(bytes)
                       THEN Returned(bytes)
                       ELSE convert_audio_format(bytes, transcoder)
           IN  IF conv.raised
               THEN /\ Respond(r, ProcessingErrorResponse(r, conv.error),
                               bytes)
               ELSE /\ Proceed(r, "diarizing")
                    /\ upload' = [upload EXCEPT ![r] = bytes]
                    /\ original_audio' =
                           [original_audio EXCEPT ![r] = conv.value]
                    /\ sampler' =
                           IF app = "main" /\ ENABLE_LOGGING
                           THEN [sampler EXCEPT ![r] = "check"]
                           ELSE sampler
                    /\ UNCHANGED speaker_audio_segments
    /\ UNCHANGED mvars
    /\ UNCHANGED <<ENABLE_LOGGING, app, saved_audio, logs_dir, direct_return>>

\* what pipeline(io.BytesIO(original_audio)) can do
PipelineResults(audio) ==
    IF Readable(audio)
    THEN { Raised("Exception") } \cup { Returned(l) : l \in DiarizationOutputs }
    ELSE { Raised("Exception") }

\* The diarization call returns or raises; the handler runs on through
\* merging and clip extraction to its next await or to its response
\* (main.py:103-166; diarization_service.py:74-100, routes 28-46).
DiarizeReturn(r) ==
    /\ pc[r] = "diarizing"
    /\ \E result \in PipelineResults(original_audio[r]),
          write_fails_at \in 0..MaxTracks :
         LET raw_segments == IF result.raised THEN <<>> ELSE result.value
             merged == merge_speaker_segments(raw_segments, DefaultGapTenths)
             ext == extract_speaker_segments(original_audio[r], merged, r,
                                             saved_audio, write_fails_at)
         IN  /\ write_fails_at <= Len(merged)
             /\ IF result.raised
                THEN /\ IF app = "main" /\ ENABLE_LOGGING
                           /\ SaveRequestLogEnabled
                        THEN /\ Proceed(r, "errlog_open")
                             /\ NoTask
                             /\ UNCHANGED <<upload, original_audio,
                                            speaker_audio_segments>>
                        ELSE Respond(r, UnexpectedErrorResponse(r),
                                     upload[r])
                     /\ UNCHANGED saved_audio
                ELSE IF ext.raised
                THEN /\ saved_audio' = ext.files
                     /\ Respond(r, ProcessingErrorResponse(r, ext.error),
                                upload[r])
                ELSE /\ saved_audio' = ext.files
                     /\ IF app = "routes"
                           \/ (ENABLE_LOGGING /\ SaveRequestLogEnabled)
                        THEN /\ Proceed(r, "log_open")
                             /\ NoTask
                             /\ speaker_audio_segments' =
                                    [speaker_audio_segments EXCEPT
                                        ![r] = Assigned(ext.value)]
                             /\ UNCHANGED <<upload, original_audio>>
                        ELSE Respond(r, MainSuccess(r, ext.value), upload[r])
    /\ UNCHANGED mvars
    /\ UNCHANGED <<ENABLE_LOGGING, app, logs_dir, direct_return>>

\* request r is in the except clause of main.py:126-140
ErrorPath(r) ==
    pc[r] \in {"errlog_open", "errlog_write", "errlog_close",
               "errlog_close_raised"}

\* the await of the log call at which request r is suspended next
LogPc(r, step) ==
    IF ErrorPath(r)
    THEN [write |-> "errlog_write", close |-> "errlog_close",
          close_raised |-> "errlog_close_raised"][step]
    ELSE [write |-> "log_write", close |-> "log_close",
          close_raised |-> "log_close_raised"][step]

\* the response of the handler once its log call is over; failed: the log
\* call raised
AfterLog(r, failed) ==
    IF app = "routes"
    THEN IF failed THEN UnexpectedErrorResponse(r)
         ELSE RoutesSuccess(r, speaker_audio_segments[r].value)
    ELSE IF ErrorPath(r)
         THEN UnexpectedErrorResponse(r)
         ELSE MainSuccess(r, speaker_audio_segments[r].value)

\* aiofiles.open(log_path, "w") completes or raises.  Opened, the file
\* exists and is empty; json.dumps(data) then either raises inside the
\* `async with` block, whose exit awaits the close, or the handler is
\* suspended at the write (logging_utils.py:83-85; logging_service.py:16-17).
LogOpened(r) ==
    /\ pc[r] \in {"log_open", "errlog_open"}
    /\ LoopFree
    /\ \E open_ok \in BOOLEAN :
           IF ~open_ok
           THEN /\ Respond(r, AfterLog(r, TRUE), upload[r])
                /\ UNCHANGED logs_dir
           ELSE /\ logs_dir' =
                       [logs_dir EXCEPT
                           ![r] = IF JsonSerializable(LogData(r))
                                  THEN OpenedLog(LogData(r))
                                  ELSE EmptyLog]
                /\ Proceed(r, IF JsonSerializable(LogData(r))
                              THEN LogPc(r, "write")
                              ELSE LogPc(r, "close_raised"))
                /\ NoTask
                /\ UNCHANGED <<upload, original_audio,
                               speaker_audio_segments>>
    /\ UNCHANGED mvars
    /\ UNCHANGED <<ENABLE_LOGGING, app, saved_audio, direct_return>>

\* log_file.write completes or raises; either way the exit of the
\* `async with` block awaits the close (logging_utils.py:84-85;
\* logging_service.py:16-17).  The text stays in the file object's buffer
\* until the close.
LogWritten(r) ==
    /\ pc[r] \in {"log_write", "errlog_write"}
    /\ LoopFree
    /\ \E write_ok \in BOOLEAN :
           /\ logs_dir' = [logs_dir EXCEPT ![r] =
                             IF write_ok THEN @ ELSE EmptyLog]
           /\ Proceed(r, IF write_ok THEN LogPc(r, "close")
                         ELSE LogPc(r, "close_raised"))
    /\ NoTask
    /\ UNCHANGED <<upload, original_audio, speaker_audio_segments>>
    /\ UNCHANGED mvars
    /\ UNCHANGED <<ENABLE_LOGGING, app, saved_audio, direct_return>>

\* The close is over.  After a completed write it flushes the buffered
\* text to the file, or fails (a full disk surfaces here) and raises with
\* the file left empty; after an exception raised inside the block, that
\* exception goes on.  The handler then runs to its return
\* (logging_utils.py:86-90, main.py:138-174; logging_service.py:16-17,
\* routes/diarization.py:36-46).
LogClosed(r) ==
    /\ pc[r] \in {"log_close", "errlog_close",
                  "log_close_raised", "errlog_close_raised"}
    /\ LoopFree
    /\ \E close_ok \in BOOLEAN :
           IF pc[r] \in {"log_close", "errlog_close"}
           THEN /\ logs_dir' = [logs_dir EXCEPT ![r] =
                                  IF close_ok THEN WrittenLog(@.data)
                                  ELSE EmptyLog]
                /\ Respond(r, AfterLog(r, ~close_ok), upload[r])
           ELSE /\ UNCHANGED logs_dir
                /\ Respond(r, AfterLog(r, TRUE), upload[r])
    /\ UNCHANGED mvars
    /\ UNCHANGED <<ENABLE_LOGGING, app, saved_audio, direct_return>>

\* The collect_metrics task evaluates its while condition (main.py:95):
\* nothing else reads the clock, so whether five seconds have passed since
\* step_2_start is a choice.  Within the window the task is suspended at
\* asyncio.sleep; past it the task ends, and the sample list dies with it
\* if the handler has returned.
SamplerLoop(r, samples, window_expired) ==
    IF window_expired
    THEN /\ sampler' = [sampler EXCEPT
                           ![r] = IF pc[r] = "done" THEN "none"
                                  ELSE "finished"]
         /\ during_processing_metrics' =
                [during_processing_metrics EXCEPT
                    ![r] = IF pc[r] = "done" THEN <<>> ELSE samples]
    ELSE /\ Len(samples) < MaxSamples
         /\ sampler' = [sampler EXCEPT ![r] = "sleeping"]
         /\ during_processing_metrics' =
                [during_processing_metrics EXCEPT ![r] = samples]

\* The task created at main.py:101 runs for the first time: up to its
\* first asyncio.sleep, or to its end (main.py:94-96).
SamplerCheck(r) ==
    /\ sampler[r] = "check"
    /\ LoopFree
    /\ \E window_expired \in BOOLEAN :
           SamplerLoop(r, during_processing_metrics[r], window_expired)
    /\ UNCHANGED mvars
    /\ UNCHANGED <<ENABLE_LOGGING, app, pc, upload, original_audio,
                   speaker_audio_segments, last_response, last_upload,
                   saved_audio, logs_dir, direct_return>>

\* asyncio.sleep(0.1) is over: the sample is appended and the while
\* condition evaluated again (main.py:95-100)
SamplerWake(r) ==
    /\ sampler[r] = "sleeping"
    /\ LoopFree
    /\ \E window_expired \in BOOLEAN :
           SamplerLoop(r, Append(during_processing_metrics[r],
                                 [system |-> Coroutine]),
                       window_expired)
    /\ UNCHANGED mvars
    /\ UNCHANGED <<ENABLE_LOGGING, app, pc, upload, original_audio,
                   speaker_audio_segments, last_response, last_upload,
                   saved_audio, logs_dir, direct_return>>

\* the record of the direct call: it has no request_id
DirectData == [kind |-> "direct"]

\* save_request_log called with a record that has no request_id
\* (logging_utils.py:71-81).  With the toggle off it returns None at once;
\* otherwise it is suspended at aiofiles.open.  The call shares nothing
\* with the handlers but the toggle, so it is made once, when the requests
\* and their tasks are over.
SaveRequestLogDirect ==
    /\ direct_return = "not_called"
    /\ \A q \in Requests : pc[q] = "done" /\ ~SamplerActive(q)
    /\ direct_return' = IF SaveRequestLogEnabled THEN "open" ELSE "None"
    /\ UNCHANGED mvars
    /\ UNCHANGED <<ENABLE_LOGGING, app, pc, upload, original_audio, sampler,
                   during_processing_metrics, speaker_audio_segments,
                   last_response, last_upload, saved_audio, logs_dir>>

\* aiofiles.open of the direct call completes or raises
\* (logging_utils.py:83-85, 88-90)
DirectLogOpened ==
    /\ direct_return = "open"
    /\ LoopFree
    /\ \E open_ok \in BOOLEAN :
           IF ~open_ok
           THEN /\ direct_return' = "None"
                /\ UNCHANGED logs_dir
           ELSE /\ logs_dir' =
                       [logs_dir EXCEPT
                           ![0] = IF JsonSerializable(DirectData)
                                  THEN OpenedLog(DirectData)
                                  ELSE EmptyLog]
                /\ direct_return' = IF JsonSerializable(DirectData)
                                    THEN "write" ELSE "close_raised"
    /\ UNCHANGED mvars
    /\ UNCHANGED <<ENABLE_LOGGING, app, pc, upload, original_audio, sampler,
                   during_processing_metrics, speaker_audio_segments,
                   last_response, last_upload, saved_audio>>

\* log_file.write of the direct call completes or raises
\* (logging_utils.py:85)
DirectLogWritten ==
    /\ direct_return = "write"
    /\ LoopFree
    /\ \E write_ok \in BOOLEAN :
           /\ logs_dir' = [logs_dir EXCEPT ![0] =
                             IF write_ok THEN @ ELSE EmptyLog]
           /\ direct_return' = IF write_ok THEN "close" ELSE "close_raised"
    /\ UNCHANGED mvars
    /\ UNCHANGED <<ENABLE_LOGGING, app, pc, upload, original_audio, sampler,
                   during_processing_metrics, speaker_audio_segments,
                   last_response, last_upload, saved_audio>>

\* the close of the direct call is over: with the text flushed it returns
\* log_path; a close that fails, or an exception raised inside the block,
\* ends in the except clause, which returns None (logging_utils.py:86-90)
DirectLogClosed ==
    /\ direct_return \in {"close", "close_raised"}
    /\ LoopFree
    /\ \E close_ok \in BOOLEAN :
           IF direct_return = "close"
           THEN /\ logs_dir' = [logs_dir EXCEPT ![0] =
                                  IF close_ok THEN WrittenLog(@.data)
                                  ELSE EmptyLog]
                /\ direct_return' = IF close_ok THEN "log_path" ELSE "None"
           ELSE /\ UNCHANGED logs_dir
                /\ direct_return' = "None"
    /\ UNCHANGED mvars
    /\ UNCHANGED <<ENABLE_LOGGING, app, pc, upload, original_audio, sampler,
                   during_processing_metrics, speaker_audio_segments,
                   last_response, last_upload, saved_audio>>

Next ==
    \/ \E r \in Requests : Receive(r)
    \/ \E r \in Requests : StartProcessing(r)
    \/ \E r \in Requests : DiarizeReturn(r)
    \/ \E r \in Requests : LogOpened(r)
    \/ \E r \in Requests : LogWritten(r)
    \/ \E r \in Requests : LogClosed(r)
    \/ \E r \in Requests : SamplerCheck(r)
    \/ \E r \in Requests : SamplerWake(r)
    \/ SaveRequestLogDirect
    \/ DirectLogOpened
    \/ DirectLogWritten
    \/ DirectLogClosed

Spec == Init /\ [][Next]_vars

-----------------------------------------------------------------------------
(* Specification of the merge engine: draw an input, merge, merge again *)

InitMerge ==
    /\ \/ /\ events \in EventLists
          /\ gap_threshold \in 0..MaxGap
       \/ /\ events = ExampleEvents
          /\ gap_threshold = DefaultGapTenths
    /\ segments = events
    /\ merged_segments = NotCalled
    /\ remerged = NotCalled
    /\ mpc = "input"
    /\ ENABLE_LOGGING = TRUE
    /\ app = "main"
    /\ ServiceIdle

MergeCall ==
    /\ mpc = "input"
    /\ merged_segments' = merge_speaker_segments(segments, gap_threshold)
    /\ segments' = SegmentsAfterMerge(segments, gap_threshold)
    /\ mpc' = "merged"
    /\ UNCHANGED <<events, gap_threshold, remerged>>
    /\ UNCHANGED svars

RemergeCall ==
    /\ mpc = "merged"
    /\ remerged' = merge_speaker_segments(merged_segments, gap_threshold)
    /\ mpc' = "remerged"
    /\ UNCHANGED <<events, gap_threshold, segments, merged_segments>>
    /\ UNCHANGED svars

NextMerge == MergeCall \/ RemergeCall

SpecMerge == InitMerge /\ [][NextMerge]_vars

-----------------------------------------------------------------------------
(* Claims about merge_speaker_segments, checked under SpecMerge *)

IsExample == events = ExampleEvents /\ gap_threshold = DefaultGapTenths

Seg(sp, s, e) == [speaker |-> sp, start |-> s, end |-> e]

\* C1: merge_speaker_segments is idempotent: merging its own output again
\* with the same gap threshold returns a list equal to that output.
C1_Idempotent == mpc = "remerged" => remerged = merged_segments

\* a second merge has run on an output in which events were merged and
\* several segments remain
C1_Witness ==
    /\ mpc = "remerged"
    /\ Len(merged_segments) >= 2
    /\ Len(merged_segments) < Len(events)

\* C2: the output is sorted by start ascending, and every two adjacent
\* output segments of the same speaker satisfy next.start - prev.end > g.
C2_SortedAndSeparated ==
    mpc # "input" =>
        \A i \in 1..(Len(merged_segments) - 1) :
            /\ merged_segments[i].start <= merged_segments[i + 1].start
            /\ merged_segments[i].speaker = merged_segments[i + 1].speaker
                 => merged_segments[i + 1].start - merged_segments[i].end
                        > gap_threshold

\* the input was not sorted, and the output keeps two adjacent segments of
\* one speaker
C2_Witness ==
    /\ mpc = "merged"
    /\ \E i \in 1..(Len(events) - 1) : events[i].start > events[i + 1].start
    /\ \E i \in 1..(Len(merged_segments) - 1) :
           merged_segments[i].speaker = merged_segments[i + 1].speaker

\* i < j are consecutive within their speaker's own subsequence of out
ConsecutiveOfSpeaker(out, i, j) ==
    /\ i < j
    /\ out[i].speaker = out[j].speaker
    /\ \A k \in (i + 1)..(j - 1) : out[k].speaker # out[i].speaker

\* C3 (as claimed): for every speaker, any two output segments consecutive
\* within that speaker's own subsequence, other speakers' segments between
\* them ignored, are separated by a gap greater than the threshold.
C3_PerSpeakerSeparated ==
    mpc # "input" =>
        \A i, j \in 1..Len(merged_segments) :
            ConsecutiveOfSpeaker(merged_segments, i, j)
                => merged_segments[j].start - merged_segments[i].end
                       > gap_threshold

\* C3 (amended): two output segments consecutive within their speaker's
\* subsequence are separated by a gap greater than the threshold unless a
\* segment of another speaker lies between them in the output.
C3_SeparatedUnlessInterleaved ==
    mpc # "input" =>
        \A i, j \in 1..Len(merged_segments) :
            ConsecutiveOfSpeaker(merged_segments, i, j)
                => \/ merged_segments[j].start - merged_segments[i].end
                          > gap_threshold
                   \/ j > i + 1

\* the output holds two segments of one speaker next to each other and the
\* input held two events of that speaker that were merged
C3_Witness ==
    /\ mpc = "merged"
    /\ Len(merged_segments) < Len(events)
    /\ \E i \in 1..(Len(merged_segments) - 1) :
           ConsecutiveOfSpeaker(merged_segments, i, i + 1)

\* C4 (as claimed): the example [{A,0,2},{A,2.3,4},{B,2.1,3},{A,4.4,6}] with
\* gap 0.5 is merged to exactly [{A,0,6},{B,2.1,3}].
C4_ExampleAsClaimed ==
    (IsExample /\ mpc # "input") =>
        merged_segments = << Seg("A", 0, 60), Seg("B", 21, 30) >>

\* C4 (amended): the example is merged to exactly
\* [{A,0,2},{B,2.1,3},{A,2.3,6}].
C4_ExampleAsComputed ==
    (IsExample /\ mpc # "input") =>
        merged_segments =
            << Seg("A", 0, 20), Seg("B", 21, 30), Seg("A", 23, 60) >>

\* the example has been merged
C4_Witness == IsExample /\ mpc = "merged"

\* C5: whenever an event is merged into the current segment, the segment's
\* end becomes max(current.end, next.end).
C5_MergeExtendsToMax ==
    mpc # "input" =>
        \A k \in 2..Len(events) :
            LET sorted == SortByStart(events)
                before == MergeLoop(sorted, gap_threshold, k - 1)
                after  == MergeLoop(sorted, gap_threshold, k)
                current_segment == before.segs[before.cur]
                next_segment == before.segs[k]
            IN  ShouldMerge(current_segment, next_segment, gap_threshold)
                    => after.segs[after.cur].end =
                           Max(current_segment.end, next_segment.end)

-----------------------------------------------------------------------------
(* Claims about the /diarize handlers, checked under Spec *)

\* request r has been answered and nothing was answered after it
AnsweredLast(r) == pc[r] = "done" /\ last_response.request_id = r

\* C6: a clip file persisted by one request is never overwritten by a
\* later request: once a clip file exists, GET /audio/{filename} keeps
\* resolving to the same bytes.
C6_ClipFilesStable ==
    [][\A filename \in ClipIndexes :
          get_audio(filename) # NoFile =>
              saved_audio'[filename] = get_audio(filename)]_vars

\* C7: the sampler appends a sample to the during-processing series of a
\* request only while that request's diarization call is in progress.
C7_SamplesOnlyDuringDiarization ==
    [][\A r \in Requests :
          Len(during_processing_metrics'[r]) > Len(during_processing_metrics[r])
              => pc[r] = "diarizing"]_vars

\* C8: with the logging toggle disabled, no request handled by
\* app.main.diarize_audio leaves a log file, whatever its outcome, and
\* save_request_log returns None and writes nothing.
C8_DisabledWritesNoLog ==
    ~ENABLE_LOGGING =>
        /\ direct_return # "log_path"
        /\ logs_dir[0] = NoLog
        /\ (app = "main" => \A r \in Requests : logs_dir[r] = NoLog)

\* logging is disabled; app.main has answered one request with clips and
\* another with an unexpected error, and save_request_log has been called
C8_Witness ==
    /\ ~ENABLE_LOGGING
    /\ app = "main"
    /\ direct_return = "None"
    /\ \E r \in Requests : AnsweredLast(r) /\ last_response.status = 500
    /\ \E filename \in ClipIndexes : get_audio(filename) # NoFile

\* C9: when the processing of a request succeeded and its log call is
\* pending, the handler answers with the successful response whether the
\* log call raises or not.
C9_LogFailureKeepsResponse ==
    [][\A r \in Requests :
          (/\ pc[r] \in {"log_open", "log_close", "log_close_raised"}
           /\ pc'[r] = "done") =>
              /\ last_response'.request_id = r
              /\ last_response'.status = 200
              /\ last_response'.speakers = speaker_audio_segments[r].value]_vars

\* C10: an upload that cannot be decoded is answered with status 400, and
\* handling it leaves no log file and no clip cut from it.
C10_UndecodableRejected ==
    \A r \in Requests :
        (AnsweredLast(r) /\ last_upload.format = "undecodable") =>
            /\ last_response.status = 400
            /\ logs_dir[r] = NoLog
            /\ \A filename \in ClipIndexes : get_audio(filename).audio # r

\* app.main with logging enabled has answered an undecodable upload, after
\* another request left its clip and its log file
C10_Witness ==
    /\ ENABLE_LOGGING
    /\ app = "main"
    /\ \E r \in Requests :
           /\ AnsweredLast(r)
           /\ last_upload = [id |-> r, format |-> "undecodable"]
           /\ last_response.status = 400
    /\ \E filename \in ClipIndexes : get_audio(filename) # NoFile
    /\ \E q \in Requests : logs_dir[q] # NoLog

\* C11: a request whose upload was readable and whose transcoding, merging
\* or clip extraction failed is answered with a 5xx status, never a 4xx,
\* and its response carries no speakers mapping.
C11_ProcessingErrorIsServerError ==
    \A r \in Requests :
        (/\ AnsweredLast(r)
         /\ Readable(last_upload)
         /\ last_response.status # 200) =>
            /\ last_response.status >= 500
            /\ "speakers" \notin DOMAIN last_response

\* C12: validate_audio_format returns False only for bytes that parse as
\* audio and are not 16 kHz mono; for an upload that does not parse it
\* does not return False (it signals an error instead).
C12_ValidateFalseOnlyForParseable ==
    last_upload # NoAudio =>
        (validate_audio_format(last_upload) = FALSE =>
            Readable(last_upload) /\ last_upload.format = "noncanonical")

\* C13: the bytes convert_audio_format hands back to the handler are
\* canonical (validate_audio_format of them is True), whatever the
\* transcoder did, and canonical input comes back unchanged.
C13_ConvertReturnsCanonical ==
    /\ \A r \in Requests :
           original_audio[r] # NoAudio =>
               validate_audio_format(original_audio[r])
    /\ \A r \in Requests, transcoder \in {"ok", "unavailable", "nonzero"} :
           (upload[r] # NoAudio /\ validate_audio_format(upload[r])) =>
               convert_audio_format(upload[r], transcoder) =
                   Returned(upload[r])

-----------------------------------------------------------------------------
(* Claims about extraction and merging, checked under SpecMerge *)

\* extract_speaker_segments applied to the merged segments of the state
ClipsOfMerged ==
    extract_speaker_segments([id |-> 1, format |-> "canonical"],
                             merged_segments, 1, saved_audio, 0)

\* C14: applied to the output of merge_speaker_segments, the extraction
\* returns for every speaker the clips of exactly that speaker's merged
\* segments, with their start and end values, in ascending start time, and
\* every merged segment is exactly one clip, listed under its own speaker.
C14_ClipsMatchMergedSegments ==
    mpc # "input" =>
        LET clips == ClipsOfMerged.value
            n == Len(merged_segments)
            OfSpeaker(sp) ==
                SelectSeq(merged_segments, LAMBDA seg : seg.speaker = sp)
        IN  /\ ~ClipsOfMerged.raised
            /\ DOMAIN clips = { merged_segments[i].speaker : i \in 1..n }
            /\ \A sp \in DOMAIN clips :
                   /\ Len(clips[sp]) = Len(OfSpeaker(sp))
                   /\ \A k \in 1..Len(clips[sp]) :
                          /\ clips[sp][k].start = OfSpeaker(sp)[k].start
                          /\ clips[sp][k].end = OfSpeaker(sp)[k].end
                   /\ \A j, k \in 1..Len(clips[sp]) :
                          j < k => clips[sp][j].start <= clips[sp][k].start
            /\ \A i \in 1..n :
                   Cardinality({ <<sp, k>> \in (DOMAIN clips) \X (1..n) :
                                   /\ k <= Len(clips[sp])
                                   /\ clips[sp][k].id = <<1, i>> }) = 1
            /\ \A i \in 1..n :
                   \E k \in 1..Len(clips[merged_segments[i].speaker]) :
                       LET clip == clips[merged_segments[i].speaker][k]
                       IN  /\ clip.id = <<1, i>>
                           /\ clip.start = merged_segments[i].start
                           /\ clip.end = merged_segments[i].end

\* three merged segments, the first and the last of one speaker and the
\* second of the other: one speaker gets two clips, the other one
C14_Witness ==
    /\ mpc = "merged"
    /\ Len(merged_segments) = 3
    /\ merged_segments[1].speaker = merged_segments[3].speaker
    /\ merged_segments[2].speaker # merged_segments[1].speaker
    /\ merged_segments[1].start < merged_segments[3].start
    /\ Len(ClipsOfMerged.value[merged_segments[1].speaker]) = 2

\* C15: the merge drops every merged segment shorter than the minimum
\* duration; with a minimum of 1.0 s (10 tenths) the solitary event
\* {A, 0, 0.3} is dropped and no returned segment is shorter than 1.0 s.
C15_MinimumDurationFloor ==
    mpc # "input" =>
        /\ events = << Seg("A", 0, 3) >> => merged_segments = <<>>
        /\ \A i \in 1..Len(merged_segments) :
               merged_segments[i].end - merged_segments[i].start >= 10

-----------------------------------------------------------------------------
(* Claims about the log records and the merge's argument *)

\* C16: with logging enabled, a successful request handled by app.main
\* whose log file could be opened leaves one written log record holding
\* its request_id, the step timings and before/after snapshots that are
\* mappings with the CPU, RAM and disk metrics.
C16_SuccessPersistsLogRecord ==
    \A r \in Requests :
        (/\ ENABLE_LOGGING
         /\ app = "main"
         /\ AnsweredLast(r)
         /\ last_response.status = 200
         /\ logs_dir[r] # NoLog) =>
            /\ logs_dir[r].state = "written"
            /\ logs_dir[r].data.request_id = r
            /\ logs_dir[r].data.step_timings # {}
            /\ \A m \in {logs_dir[r].data.before_processing,
                         logs_dir[r].data.after_processing} :
                   /\ m.kind = "snapshot"
                   /\ {"cpu_usage_percent", "ram_usage_percent",
                       "disk_usage_percent"} \subseteq m.keys

\* C17: merge_speaker_segments leaves the caller's list as it was: after
\* the call it holds the same events in the same order, each with the
\* speaker, start and end it had before.
C17_InputUnchanged ==
    mpc # "input" => segments = events

====
